---- MODULE Spec2Model ----
(***************************************************************************)
(* Session lifecycle of the RAG file-search application (App component,   *)
(* together with the WelcomeScreen and ChatInterface components that wire  *)
(* its handlers to the user).  Every synchronous stretch of a handler,    *)
(* from one await to the next, is one action; values a handler captured   *)
(* when it was invoked are kept with the pending operation.               *)
(***************************************************************************)
EXTENDS Integers, Sequences, FiniteSets, TLC

\* ---------------------------------------------------------------- bounds
FileNames == {"a.pdf"}
MaxFiles == 2
MaxIndexings == 3
MaxUploads == 2
MaxTurns == 1
\* Selections a single indexing is run over: two names, one to MaxDocFiles files
DocFileNames == {"a.pdf", "b.pdf"}
MaxDocFiles == 4

\* ------------------------------------------------------- program values
NoStore == 0
Undefined == -1
NoError == <<>>
NoApiKeyError == "null"

Initializing == "Initializing"
Welcome == "Welcome"
Uploading == "Uploading"
Chatting == "Chatting"
Error == "Error"
AppStatus == {Initializing, Welcome, Uploading, Chatting, Error}

SelectKeyFirstText == "Please select your Gemini API Key first."
InvalidKeyText == "The selected API key is invalid. Please select a different one and try again."
ApologyText == "Sorry, I encountered an error. Please try again."
InitFailedText == "Initialization failed. Please select a valid API Key."
StartFailedText == "Failed to start chat session"
QueryFailedText == "Failed to get response"

\* ------------------------------------------------------------- strings
\* A string is a sequence of tokens (words and punctuation).
LowerWord(w) ==
    CASE w = "API" -> "api"
      [] w = "Requested" -> "requested"
      [] w = "Quota" -> "quota"
      [] w = "Boom" -> "boom"
      [] OTHER -> w

toLowerCase(s) == [k \in 1..Len(s) |-> LowerWord(s[k])]

includes(s, needle) ==
    \E k \in 0..(Len(s) - Len(needle)) : SubSeq(s, k + 1, k + Len(needle)) = needle

ApiKeyNotValid == <<"api", "key", "not", "valid">>
EntityNotFound == <<"requested", "entity", "was", "not", "found">>

\* Values a collaborator call can reject with: Error objects and thrown strings.
ErrVals ==
    { [isError |-> TRUE,  text |-> <<"API", "key", "not", "valid", ".">>],
      [isError |-> FALSE, text |-> <<"Requested", "entity", "was", "not", "found", ".">>],
      [isError |-> TRUE,  text |-> <<"Quota", "exceeded">>] }

\* What initialize() and fileSearch() reject with: their callers do not look
\* at the message.
PlainErrVals == {e \in ErrVals : e.isError /\ e.text = <<"Quota", "exceeded">>}

\* err instanceof Error ? err.message : String(err)
ErrString(err) == err.text

\* JavaScript truthiness of the thrown value
Truthy(err) == err.isError \/ err.text # <<>>

\* The test of the catch block on the lower-cased message
HasCredentialMessage(err) ==
    LET errorMessage == toLowerCase(ErrString(err))
    IN includes(errorMessage, ApiKeyNotValid) \/ includes(errorMessage, EntityNotFound)

\* The rejections that test classifies as credential errors
CredentialErrVals == {e \in ErrVals : HasCredentialMessage(e)}

IsCredentialError(err) == err \in CredentialErrVals

\* handleError that drops the error's own message
ErrorText_NoDetail(message, err) == <<message>>

\* setError(`${message}${err ? `: ${...}` : ''}`)
ErrorText(message, err) ==
    <<message>> \o (IF Truthy(err) THEN <<":">> \o ErrString(err) ELSE <<>>)

\* What the last checkApiKey that completed passed to setIsApiKeySelected
NotAsked == "not asked"
Answer(hasKey) == IF hasKey THEN "true" ELSE "false"

\* ------------------------------------------------------------- records
NoFileName == [idx |-> 0, of |-> 0, name |-> "undefined"]
EmptyFileName == [idx |-> 0, of |-> 0, name |-> ""]
NoProgress == [current |-> 0, total |-> 0, message |-> "null", fileName |-> NoFileName]
NoQuery == [store |-> NoStore, message |-> ""]

UserTurn(m) == [role |-> "user", text |-> m]
ModelTurn(t) == [role |-> "model", text |-> t]
Messages == {"hello"}
Answers == {"answer"}

\* listType of renderMarkdown: 'ul' | 'ol' | null
NoList == "null"

VARIABLES
    status, isApiKeySelected, apiKeyError, error, uploadProgress,
    activeRagStoreName, chatHistory, isQueryLoading, documentName, files,
    ragStoreNameRef,
    aistudio, hostHasKey, checkPending, lastHasKey,
    uploads, pendingQuery,
    created, deleteRequests, everActive,
    unloaded, rejected,
    lines, lineNo, html, listType, paraBuffer

appVars == <<status, isApiKeySelected, apiKeyError, error, uploadProgress,
             activeRagStoreName, chatHistory, isQueryLoading, documentName, files,
             ragStoreNameRef>>
hostVars == <<aistudio, hostHasKey, checkPending, lastHasKey>>
remoteVars == <<created, deleteRequests, everActive>>
renderVars == <<lines, lineNo, html, listType, paraBuffer>>
vars == <<appVars, hostVars, uploads, pendingQuery, remoteVars, unloaded, rejected,
          renderVars>>

Stores == 1..MaxIndexings

\* No call of renderMarkdown is under way.
NotRendering ==
    /\ lines = <<>>
    /\ lineNo = 0
    /\ html = <<>>
    /\ listType = NoList
    /\ paraBuffer = <<>>

Init ==
    /\ status = Initializing
    /\ isApiKeySelected = FALSE
    /\ apiKeyError = NoApiKeyError
    /\ error = NoError
    /\ uploadProgress = NoProgress
    /\ activeRagStoreName = NoStore
    /\ chatHistory = <<>>
    /\ isQueryLoading = FALSE
    /\ documentName = <<>>
    /\ files = <<>>
    /\ ragStoreNameRef = NoStore
    /\ aistudio \in BOOLEAN
    /\ hostHasKey \in BOOLEAN
    /\ checkPending = FALSE
    /\ lastHasKey = NotAsked
    /\ uploads = <<>>
    /\ pendingQuery = NoQuery
    /\ created = 0
    /\ deleteRequests = [s \in Stores |-> 0]
    /\ everActive = {}
    /\ unloaded = FALSE
    /\ rejected = FALSE
    /\ NotRendering

\* rejected: the promise of handleUploadAndStartChat has rejected and the
\* continuation of its caller, the catch of handleConfirmUpload, has not run
\* yet.  Promise continuations run before the next event is handled.
Live == ~unloaded /\ ~rejected

\* ------------------------------------------------------ mount, ApiKeyGate
\* lastHasKey: what the previous completed checkApiKey set the flag to, the
\* host's answer or false when the call rejected.
\* checkPending: a hasSelectedApiKey() call of checkApiKey is awaited.  Every
\* pending call sets the flag to the answer the host gives when it settles, so
\* a call made while one is pending acts like a call made right after it
\* settled, and one pending call stands for any number of them.

\* The mount effects: setStatus(Welcome) and the initial checkApiKey().
Mount ==
    /\ Live /\ status = Initializing
    /\ status' = Welcome
    /\ checkPending' = aistudio
    /\ UNCHANGED <<isApiKeySelected, apiKeyError, error, uploadProgress,
                   activeRagStoreName, chatHistory, isQueryLoading, documentName,
                   files, ragStoreNameRef, aistudio, hostHasKey, lastHasKey, uploads,
                   pendingQuery, remoteVars, unloaded, rejected, renderVars>>

\* checkApiKey, up to its await (focus or visibility regained).
checkApiKey ==
    /\ Live /\ status # Initializing
    /\ aistudio
    /\ ~checkPending
    /\ checkPending' = TRUE
    /\ UNCHANGED <<appVars, aistudio, hostHasKey, lastHasKey, uploads, pendingQuery,
                   remoteVars, unloaded, rejected, renderVars>>

\* hasSelectedApiKey() resolves with the host's answer, or rejects.
checkApiKeySettles(rejects) ==
    /\ Live /\ checkPending
    /\ checkPending' = FALSE
    /\ isApiKeySelected' = IF rejects THEN FALSE ELSE hostHasKey
    /\ lastHasKey' = Answer(isApiKeySelected')
    /\ UNCHANGED <<status, apiKeyError, error, uploadProgress, activeRagStoreName,
                   chatHistory, isQueryLoading, documentName, files, ragStoreNameRef,
                   aistudio, hostHasKey, uploads, pendingQuery, remoteVars, unloaded,
                   rejected, renderVars>>

\* handleSelectKey: the host dialog lets the user pick or drop a credential,
\* then checkApiKey() runs.  Without the capability it only alerts.
handleSelectKey ==
    /\ Live /\ status = Welcome /\ ~isApiKeySelected
    /\ IF aistudio
         THEN /\ hostHasKey' \in BOOLEAN
              /\ checkPending' = TRUE
         ELSE /\ UNCHANGED <<hostHasKey, checkPending>>
    /\ UNCHANGED <<appVars, aistudio, lastHasKey, uploads, pendingQuery, remoteVars,
                   unloaded, rejected, renderVars>>

\* The credential is changed out-of-band (another tab of the host).  The
\* program reads the host's answer only when a pending check settles, so the
\* change is taken while a check is pending.
HostKeyChange ==
    /\ Live /\ status # Initializing
    /\ aistudio
    /\ checkPending
    /\ hostHasKey' = ~hostHasKey
    /\ UNCHANGED <<appVars, aistudio, checkPending, lastHasKey, uploads, pendingQuery,
                   remoteVars, unloaded, rejected, renderVars>>

\* ------------------------------------------------- WelcomeScreen: selection
\* The upload screen offered beside the chat as well.
WelcomeShown_AlsoInChat == Live /\ status \in {Welcome, Chatting}

\* renderContent: WelcomeScreen and its controls are rendered in phase Welcome.
WelcomeShown == Live /\ status = Welcome

handleFileChange(f) ==
    /\ WelcomeShown
    /\ Len(files) < MaxFiles
    /\ files' = Append(files, f)
    /\ UNCHANGED <<status, isApiKeySelected, apiKeyError, error, uploadProgress,
                   activeRagStoreName, chatHistory, isQueryLoading, documentName,
                   ragStoreNameRef, hostVars, uploads, pendingQuery, remoteVars,
                   unloaded, rejected, renderVars>>

handleRemoveFile(indexToRemove) ==
    /\ WelcomeShown
    /\ indexToRemove \in 1..Len(files)
    /\ files' = SubSeq(files, 1, indexToRemove - 1)
                  \o SubSeq(files, indexToRemove + 1, Len(files))
    /\ UNCHANGED <<status, isApiKeySelected, apiKeyError, error, uploadProgress,
                   activeRagStoreName, chatHistory, isQueryLoading, documentName,
                   ragStoreNameRef, hostVars, uploads, pendingQuery, remoteVars,
                   unloaded, rejected, renderVars>>

ClearFiles ==
    /\ WelcomeShown
    /\ Len(files) > 0
    /\ files' = <<>>
    /\ UNCHANGED <<status, isApiKeySelected, apiKeyError, error, uploadProgress,
                   activeRagStoreName, chatHistory, isQueryLoading, documentName,
                   ragStoreNameRef, hostVars, uploads, pendingQuery, remoteVars,
                   unloaded, rejected, renderVars>>

\* ------------------------------------------------------- indexing helpers
\* The naming with the two-file case dropped: a count from two files on.
docNameOf_CountFromTwo(fs) ==
    IF Len(fs) = 1 THEN <<fs[1]>>
    ELSE <<ToString(Len(fs)), " documents">>

\* let docName ... setDocumentName(docName)
docNameOf(fs) ==
    IF Len(fs) = 1 THEN <<fs[1]>>
    ELSE IF Len(fs) = 2 THEN <<fs[1], " & ", fs[2]>>
    ELSE <<ToString(Len(fs)), " documents">>

\* uploads: the running invocations of handleUploadAndStartChat, in the order
\* they were started, each with the files it captured and its local variables.
Running(u) == u \in 1..Len(uploads)
Creating == {u \in 1..Len(uploads) : uploads[u].pc = "create"}
Finished(u) == SubSeq(uploads, 1, u - 1) \o SubSeq(uploads, u + 1, Len(uploads))

FileLabel(fs, k) == [idx |-> k, of |-> Len(fs), name |-> fs[k]]

\* setUploadProgress(prev => ({...prev!, current, message, fileName}))
ReadingUpdate(prev, fs, k) ==
    [current |-> k,
     total |-> IF prev = NoProgress THEN Undefined ELSE prev.total,
     message |-> "Reading document...",
     fileName |-> FileLabel(fs, k)]

\* ----------------------------------------------- handleUploadAndStartChat
\* Credential flag false: message for the user, then throw.
StartIndexingRefused ==
    /\ WelcomeShown
    /\ ~isApiKeySelected
    /\ apiKeyError' = SelectKeyFirstText
    /\ UNCHANGED <<status, isApiKeySelected, error, uploadProgress,
                   activeRagStoreName, chatHistory, isQueryLoading, documentName,
                   files, ragStoreNameRef, hostVars, uploads, pendingQuery,
                   remoteVars, unloaded, renderVars>>
    /\ rejected' = TRUE

StartIndexingNoFiles ==
    /\ WelcomeShown
    /\ isApiKeySelected
    /\ Len(files) = 0
    /\ UNCHANGED <<appVars, hostVars, uploads, pendingQuery, remoteVars, unloaded, rejected, renderVars>>

\* geminiService.initialize() throws: handleError, then rethrow.
StartIndexingInitFails(err) ==
    /\ WelcomeShown
    /\ isApiKeySelected
    /\ Len(files) > 0
    /\ apiKeyError' = NoApiKeyError
    /\ error' = ErrorText(InitFailedText, err)
    /\ status' = Error
    /\ UNCHANGED <<isApiKeySelected, uploadProgress, activeRagStoreName,
                   chatHistory, isQueryLoading, documentName, files,
                   ragStoreNameRef, hostVars, uploads, pendingQuery, remoteVars,
                   unloaded, renderVars>>
    /\ rejected' = TRUE

\* The handler without its test of the credential flag.
StartIndexing_Ungated ==
    /\ WelcomeShown
    /\ Len(files) > 0
    /\ created + Cardinality(Creating) < MaxIndexings
    /\ Len(uploads) < MaxUploads
    /\ apiKeyError' = NoApiKeyError
    /\ status' = Uploading
    /\ uploadProgress' = [current |-> 0, total |-> Len(files) + 1,
                          message |-> "Creating index...", fileName |-> NoFileName]
    /\ uploads' = Append(uploads,
                      [pc |-> "create", files |-> files, store |-> NoStore, i |-> 0,
                       ingests |-> <<>>])
    /\ UNCHANGED <<isApiKeySelected, error, activeRagStoreName, chatHistory,
                   isQueryLoading, documentName, files, ragStoreNameRef, hostVars,
                   pendingQuery, created, deleteRequests, everActive, unloaded, rejected, renderVars>>

\* Preconditions passed: phase Uploading, first progress, createRagStore pending.
StartIndexing ==
    /\ WelcomeShown
    /\ isApiKeySelected
    /\ Len(files) > 0
    /\ created + Cardinality(Creating) < MaxIndexings
    /\ Len(uploads) < MaxUploads
    /\ apiKeyError' = NoApiKeyError
    /\ status' = Uploading
    /\ uploadProgress' = [current |-> 0, total |-> Len(files) + 1,
                          message |-> "Creating index...", fileName |-> NoFileName]
    /\ uploads' = Append(uploads,
                      [pc |-> "create", files |-> files, store |-> NoStore, i |-> 0,
                       ingests |-> <<>>])
    /\ UNCHANGED <<isApiKeySelected, error, activeRagStoreName, chatHistory,
                   isQueryLoading, documentName, files, ragStoreNameRef, hostVars,
                   pendingQuery, created, deleteRequests, everActive, unloaded, rejected, renderVars>>

\* uploadToRagStore(ragStoreName, file): a request to ingest file into store.
Ingest(store, file) == [store |-> store, file |-> file]

\* createRagStore resolved: progress 1, then the loop's first update and the
\* first uploadToRagStore request.
CreateStoreReturns_AllAtOnce(u) ==
    /\ Live /\ Running(u) /\ uploads[u].pc = "create"
    /\ created' = created + 1
    /\ uploadProgress' =
          ReadingUpdate([current |-> 1, total |-> Len(uploads[u].files) + 1,
                         message |-> "Processing...", fileName |-> NoFileName],
                        uploads[u].files, 1)
    /\ uploads' = [uploads EXCEPT ![u] =
                      [@ EXCEPT !.pc = "ingest", !.store = created + 1,
                                !.i = Len(uploads[u].files),
                                !.ingests = [k \in 1..Len(uploads[u].files) |->
                                                Ingest(created + 1,
                                                       uploads[u].files[k])]]]
    /\ UNCHANGED <<status, isApiKeySelected, apiKeyError, error, activeRagStoreName,
                   chatHistory, isQueryLoading, documentName, files, ragStoreNameRef,
                   hostVars, pendingQuery, deleteRequests, everActive,
                   unloaded, rejected, renderVars>>
CreateStoreReturns(u) ==
    /\ Live /\ Running(u) /\ uploads[u].pc = "create"
    /\ created' = created + 1
    /\ uploadProgress' =
          ReadingUpdate([current |-> 1, total |-> Len(uploads[u].files) + 1,
                         message |-> "Processing...", fileName |-> NoFileName],
                        uploads[u].files, 1)
    /\ uploads' = [uploads EXCEPT ![u] =
                      [@ EXCEPT !.pc = "ingest", !.store = created + 1, !.i = 1,
                                !.ingests = <<Ingest(created + 1,
                                                      uploads[u].files[1])>>]]
    /\ UNCHANGED <<status, isApiKeySelected, apiKeyError, error, activeRagStoreName,
                   chatHistory, isQueryLoading, documentName, files, ragStoreNameRef,
                   hostVars, pendingQuery, deleteRequests, everActive,
                   unloaded, rejected, renderVars>>

\* uploadToRagStore resolved: next file, or the final "Ready!" update and the
\* 500 ms timer.
IngestReturns(u) ==
    /\ Live /\ Running(u) /\ uploads[u].pc = "ingest"
    /\ LET up == uploads[u]
           n == Len(up.files)
       IN IF up.i < n
            THEN /\ uploadProgress' = ReadingUpdate(uploadProgress, up.files, up.i + 1)
                 /\ uploads' = [uploads EXCEPT ![u] =
                                   [@ EXCEPT !.i = up.i + 1,
                                             !.ingests = Append(@, Ingest(up.store,
                                                                 up.files[up.i + 1]))]]
            ELSE /\ uploadProgress' = [current |-> n + 1, total |-> n + 1,
                                       message |-> "Ready!", fileName |-> EmptyFileName]
                 /\ uploads' = [uploads EXCEPT ![u] = [@ EXCEPT !.pc = "ready"]]
    /\ UNCHANGED <<status, isApiKeySelected, apiKeyError, error, activeRagStoreName,
                   chatHistory, isQueryLoading, documentName, files, ragStoreNameRef,
                   hostVars, pendingQuery, remoteVars, unloaded, rejected, renderVars>>

\* The timer fired: name the session, activate the store, enter Chatting,
\* clear the selection; finally clears the progress.
IndexingSucceeds(u) ==
    /\ Live /\ Running(u) /\ uploads[u].pc = "ready"
    /\ documentName' = docNameOf(uploads[u].files)
    /\ activeRagStoreName' = uploads[u].store
    /\ ragStoreNameRef' = uploads[u].store
    /\ everActive' = everActive \cup {uploads[u].store}
    /\ chatHistory' = <<>>
    /\ status' = Chatting
    /\ files' = <<>>
    /\ uploadProgress' = NoProgress
    /\ uploads' = Finished(u)
    /\ UNCHANGED <<isApiKeySelected, apiKeyError, error, isQueryLoading, hostVars,
                   pendingQuery, created, deleteRequests, unloaded, rejected, renderVars>>

\* The catch without the finally block: the progress is left as it was.
IndexingCatch_KeepsProgress(u, err) ==
    /\ IF IsCredentialError(err)
         THEN /\ apiKeyError' = InvalidKeyText
              /\ isApiKeySelected' = FALSE
              /\ status' = Welcome
              /\ error' = error
         ELSE /\ error' = ErrorText(StartFailedText, err)
              /\ status' = Error
              /\ UNCHANGED <<apiKeyError, isApiKeySelected>>
    /\ uploadProgress' = uploadProgress
    /\ uploads' = Finished(u)
    /\ rejected' = TRUE
    /\ UNCHANGED <<activeRagStoreName, chatHistory, isQueryLoading, documentName,
                   files, ragStoreNameRef, hostVars, pendingQuery,
                   deleteRequests, everActive, unloaded, renderVars>>

\* catch of the indexing attempt, then finally.
IndexingCatch(u, err) ==
    /\ IF IsCredentialError(err)
         THEN /\ apiKeyError' = InvalidKeyText
              /\ isApiKeySelected' = FALSE
              /\ status' = Welcome
              /\ error' = error
         ELSE /\ error' = ErrorText(StartFailedText, err)
              /\ status' = Error
              /\ UNCHANGED <<apiKeyError, isApiKeySelected>>
    /\ uploadProgress' = NoProgress
    /\ uploads' = Finished(u)
    /\ rejected' = TRUE
    /\ UNCHANGED <<activeRagStoreName, chatHistory, isQueryLoading, documentName,
                   files, ragStoreNameRef, hostVars, pendingQuery,
                   deleteRequests, everActive, unloaded, renderVars>>

CreateStoreFails(u, err) ==
    /\ Live /\ Running(u) /\ uploads[u].pc = "create"
    /\ created' = created
    /\ IndexingCatch(u, err)

\* The store exists remotely; its name was only in the handler's local variable.
IngestFails(u, err) ==
    /\ Live /\ Running(u) /\ uploads[u].pc = "ingest"
    /\ created' = created
    /\ IndexingCatch(u, err)

\* handleConfirmUpload: await onUpload() rejected, the catch block logs it.
handleConfirmUploadCatch ==
    /\ ~unloaded /\ rejected
    /\ rejected' = FALSE
    /\ UNCHANGED <<appVars, hostVars, uploads, pendingQuery, remoteVars, unloaded, renderVars>>

\* ------------------------------------------------------ handleSendMessage
\* ChatInterface is rendered in phase Chatting and disables the form while a
\* query is loading.
handleSendMessage(message) ==
    /\ Live /\ status = Chatting /\ ~isQueryLoading
    /\ activeRagStoreName # NoStore
    /\ Len(chatHistory) < 2 * MaxTurns
    /\ chatHistory' = Append(chatHistory, UserTurn(message))
    /\ isQueryLoading' = TRUE
    /\ pendingQuery' = [store |-> activeRagStoreName, message |-> message]
    /\ UNCHANGED <<status, isApiKeySelected, apiKeyError, error, uploadProgress,
                   activeRagStoreName, documentName, files, ragStoreNameRef,
                   hostVars, uploads, remoteVars, unloaded, rejected, renderVars>>

\* The handler without its first line: the turn is appended and the query
\* sent although no store is active.
SendMessageNoStore_Dispatches ==
    /\ Live /\ status # Initializing
    /\ activeRagStoreName = NoStore
    /\ ~isQueryLoading
    /\ Len(chatHistory) < 2 * MaxTurns
    /\ \E message \in Messages :
          /\ chatHistory' = Append(chatHistory, UserTurn(message))
          /\ pendingQuery' = [store |-> NoStore, message |-> message]
    /\ isQueryLoading' = TRUE
    /\ UNCHANGED <<status, isApiKeySelected, apiKeyError, error, uploadProgress,
                   activeRagStoreName, documentName, files, ragStoreNameRef,
                   hostVars, uploads, remoteVars, unloaded, rejected, renderVars>>

\* The handler's own guard: no active store, nothing happens.
SendMessageNoStore ==
    /\ Live /\ status # Initializing
    /\ activeRagStoreName = NoStore
    /\ UNCHANGED <<appVars, hostVars, uploads, pendingQuery, remoteVars, unloaded, rejected, renderVars>>

\* setIsQueryLoading(false) in the catch block only, not in a finally.
QuerySucceeds_FlagLeft(answer) ==
    /\ Live /\ pendingQuery # NoQuery
    /\ chatHistory' = Append(chatHistory, ModelTurn(answer))
    /\ isQueryLoading' = isQueryLoading
    /\ pendingQuery' = NoQuery
    /\ UNCHANGED <<status, isApiKeySelected, apiKeyError, error, uploadProgress,
                   activeRagStoreName, documentName, files, ragStoreNameRef,
                   hostVars, uploads, remoteVars, unloaded, rejected, renderVars>>

\* fileSearch resolved: the model turn; finally clears the flag.
QuerySucceeds(answer) ==
    /\ Live /\ pendingQuery # NoQuery
    /\ chatHistory' = Append(chatHistory, ModelTurn(answer))
    /\ isQueryLoading' = FALSE
    /\ pendingQuery' = NoQuery
    /\ UNCHANGED <<status, isApiKeySelected, apiKeyError, error, uploadProgress,
                   activeRagStoreName, documentName, files, ragStoreNameRef,
                   hostVars, uploads, remoteVars, unloaded, rejected, renderVars>>

\* The catch ending with "throw err", as the catch of the indexing does.
QueryFails_Rethrows(err) ==
    /\ Live /\ pendingQuery # NoQuery
    /\ chatHistory' = Append(chatHistory, ModelTurn(ApologyText))
    /\ error' = ErrorText(QueryFailedText, err)
    /\ status' = Error
    /\ isQueryLoading' = FALSE
    /\ pendingQuery' = NoQuery
    /\ rejected' = TRUE
    /\ UNCHANGED <<isApiKeySelected, apiKeyError, uploadProgress,
                   activeRagStoreName, documentName, files, ragStoreNameRef,
                   hostVars, uploads, remoteVars, unloaded, renderVars>>

\* catch: the apology turn, then handleError; finally clears the flag.
QueryFails(err) ==
    /\ Live /\ pendingQuery # NoQuery
    /\ chatHistory' = Append(chatHistory, ModelTurn(ApologyText))
    /\ error' = ErrorText(QueryFailedText, err)
    /\ status' = Error
    /\ isQueryLoading' = FALSE
    /\ pendingQuery' = NoQuery
    /\ UNCHANGED <<isApiKeySelected, apiKeyError, uploadProgress,
                   activeRagStoreName, documentName, files, ragStoreNameRef,
                   hostVars, uploads, remoteVars, unloaded, rejected, renderVars>>

\* ------------------------------------------- handleEndChat, clearError, unload
handleEndChat ==
    /\ Live /\ status = Chatting
    /\ deleteRequests' =
          IF activeRagStoreName # NoStore
            THEN [deleteRequests EXCEPT ![activeRagStoreName] = @ + 1]
            ELSE deleteRequests
    /\ activeRagStoreName' = NoStore
    /\ ragStoreNameRef' = NoStore
    /\ chatHistory' = <<>>
    /\ documentName' = <<>>
    /\ files' = <<>>
    /\ status' = Welcome
    /\ UNCHANGED <<isApiKeySelected, apiKeyError, error, uploadProgress,
                   isQueryLoading, hostVars, uploads, pendingQuery,
                   created, everActive, unloaded, rejected, renderVars>>

\* A rejected deletion reported like the other failures, through handleError.
deleteRagStoreSettles_Surfaces ==
    /\ Live
    /\ \E s \in Stores : deleteRequests[s] > 0
    /\ error' = <<"Failed to delete RAG store in background">>
    /\ status' = Error
    /\ UNCHANGED <<isApiKeySelected, apiKeyError, uploadProgress,
                   activeRagStoreName, chatHistory, isQueryLoading, documentName,
                   files, ragStoreNameRef, hostVars, uploads, pendingQuery,
                   remoteVars, unloaded, rejected, renderVars>>

\* A deleteRagStore request of handleEndChat settles: nothing waits for it
\* when it resolves, and .catch only logs when it rejects.
deleteRagStoreSettles ==
    /\ Live
    /\ \E s \in Stores : deleteRequests[s] > 0
    /\ UNCHANGED vars

\* "Try Again" that also empties the selection, as handleEndChat does.
clearError_ClearsFiles ==
    /\ Live /\ status = Error
    /\ error' = NoError
    /\ status' = Welcome
    /\ files' = <<>>
    /\ UNCHANGED <<isApiKeySelected, apiKeyError, uploadProgress,
                   activeRagStoreName, chatHistory, isQueryLoading, documentName,
                   ragStoreNameRef, hostVars, uploads, pendingQuery,
                   remoteVars, unloaded, rejected, renderVars>>

clearError ==
    /\ Live /\ status = Error
    /\ error' = NoError
    /\ status' = Welcome
    /\ UNCHANGED <<isApiKeySelected, apiKeyError, uploadProgress,
                   activeRagStoreName, chatHistory, isQueryLoading, documentName,
                   files, ragStoreNameRef, hostVars, uploads, pendingQuery,
                   remoteVars, unloaded, rejected, renderVars>>

\* beforeunload: deleteRagStore for the store the ref holds, not awaited; the
\* page is discarded afterwards and nothing of the program runs any more.
handleUnload ==
    /\ Live
    /\ deleteRequests' =
          IF ragStoreNameRef # NoStore
            THEN [deleteRequests EXCEPT ![ragStoreNameRef] = @ + 1]
            ELSE deleteRequests
    /\ unloaded' = TRUE
    /\ UNCHANGED <<appVars, hostVars, uploads, pendingQuery, created,
                   everActive, rejected, renderVars>>

\* ------------------------------------------------------------ specification
Next ==
    \/ Mount
    \/ checkApiKey
    \/ \E rejects \in BOOLEAN : checkApiKeySettles(rejects)
    \/ handleSelectKey
    \/ HostKeyChange
    \/ \E f \in FileNames : handleFileChange(f)
    \/ \E k \in 1..MaxFiles : handleRemoveFile(k)
    \/ ClearFiles
    \/ StartIndexingRefused
    \/ StartIndexingNoFiles
    \/ \E err \in PlainErrVals : StartIndexingInitFails(err)
    \/ StartIndexing
    \/ \E u \in 1..MaxUploads : CreateStoreReturns(u)
    \/ \E u \in 1..MaxUploads, err \in ErrVals : CreateStoreFails(u, err)
    \/ \E u \in 1..MaxUploads : IngestReturns(u)
    \/ \E u \in 1..MaxUploads, err \in ErrVals : IngestFails(u, err)
    \/ \E u \in 1..MaxUploads : IndexingSucceeds(u)
    \/ handleConfirmUploadCatch
    \/ \E m \in Messages : handleSendMessage(m)
    \/ SendMessageNoStore
    \/ \E a \in Answers : QuerySucceeds(a)
    \/ \E err \in PlainErrVals : QueryFails(err)
    \/ handleEndChat
    \/ deleteRagStoreSettles
    \/ clearError
    \/ handleUnload

Spec == Init /\ [][Next]_vars

\* The collaborator's fileSearch settles every query, and the event loop runs
\* every continuation that is queued: the pending catch of handleConfirmUpload
\* first, the settled query when its turn comes.
QuerySettles ==
    \/ \E a \in Answers : QuerySucceeds(a)
    \/ \E err \in PlainErrVals : QueryFails(err)

FairSpec ==
    /\ Init /\ [][Next]_vars
    /\ WF_vars(handleConfirmUploadCatch)
    /\ SF_vars(QuerySettles)

\* ----------------------------------------------- one indexing, any selection
\* The Welcome screen with a credential selected and a selection of one to
\* MaxDocFiles files made, from which one indexing runs to its end.
DocSelections == UNION {[1..n -> DocFileNames] : n \in 1..MaxDocFiles}

DocNameInit ==
    /\ status = Welcome
    /\ isApiKeySelected = TRUE
    /\ apiKeyError = NoApiKeyError
    /\ error = NoError
    /\ uploadProgress = NoProgress
    /\ activeRagStoreName = NoStore
    /\ chatHistory = <<>>
    /\ isQueryLoading = FALSE
    /\ documentName = <<>>
    /\ files \in DocSelections
    /\ ragStoreNameRef = NoStore
    /\ aistudio = TRUE
    /\ hostHasKey = TRUE
    /\ checkPending = FALSE
    /\ lastHasKey = Answer(TRUE)
    /\ uploads = <<>>
    /\ pendingQuery = NoQuery
    /\ created = 0
    /\ deleteRequests = [s \in Stores |-> 0]
    /\ everActive = {}
    /\ unloaded = FALSE
    /\ rejected = FALSE
    /\ NotRendering

DocNameNext ==
    \/ StartIndexing
    \/ \E u \in 1..MaxUploads : CreateStoreReturns(u)
    \/ \E u \in 1..MaxUploads : IngestReturns(u)
    \/ \E u \in 1..MaxUploads : IndexingSucceeds(u)

DocNameSpec == DocNameInit /\ [][DocNameNext]_vars

TypeOK ==
    /\ status \in AppStatus
    /\ isApiKeySelected \in BOOLEAN
    /\ isQueryLoading \in BOOLEAN
    /\ activeRagStoreName \in 0..MaxIndexings
    /\ ragStoreNameRef = activeRagStoreName
    /\ Len(files) <= MaxFiles
    /\ created <= MaxIndexings

\* ------------------------------------------------------------------ claims
Slots == 1..MaxUploads
IndexingFails(u, err) == CreateStoreFails(u, err) \/ IngestFails(u, err)
LastTurn == chatHistory[Len(chatHistory)]

\* C1: a query of the active store that fails with a generic error while the
\* phase is Chatting appends exactly one model turn with the apology text
\* after its user turn, and the phase is still Chatting afterwards.
C1_FailedTurnKeepsChatting ==
    [][\A err \in ErrVals :
          (QueryFails(err) /\ ~IsCredentialError(err) /\ status = Chatting
             /\ activeRagStoreName # NoStore
             /\ activeRagStoreName = pendingQuery.store)
          => /\ chatHistory # <<>>
             /\ LastTurn = UserTurn(pendingQuery.message)
             /\ chatHistory' = Append(chatHistory, ModelTurn(ApologyText))
             /\ status' = Chatting]_vars

\* C2: a store that became the active handle and is no longer the active
\* handle (or the page was torn down) has had its deletion requested exactly
\* once, and no store has it requested twice.
C2_DeletedExactlyOnce ==
    \A s \in everActive :
        /\ deleteRequests[s] <= 1
        /\ (s # activeRagStoreName \/ unloaded) => deleteRequests[s] = 1

\* C3: every store createRagStore returned has had its deletion requested by
\* the time the page has been torn down (nothing runs after teardown).
C3_NoStoreLeaked ==
    unloaded => \A s \in 1..created : deleteRequests[s] >= 1

\* C4: a non-null activeRagStoreName implies phase Chatting.
C4_StoreHandleOnlyInChatting ==
    activeRagStoreName # NoStore => status = Chatting

\* C5: a non-null error implies phase Error (Failed).
C5_ErrorOnlyInFailed ==
    error # NoError => status = Error

\* C6: a non-null uploadProgress implies phase Uploading (Indexing).
C6_ProgressOnlyInIndexing ==
    uploadProgress # NoProgress => status = Uploading

\* C7: whenever an indexing operation that had set the progress finishes
\* (success, credential failure or generic failure), uploadProgress is null
\* in the state it finishes in.
C7_ProgressClearedOnExit ==
    [][Len(uploads') < Len(uploads) => uploadProgress' = NoProgress]_vars

C7_Witness ==
    /\ error # NoError /\ Head(error) = StartFailedText
    /\ status = Error
    /\ uploads = <<>>
    /\ uploadProgress = NoProgress

\* C8: when createRagStore or an ingest fails with a credential error, the
\* phase is Welcome afterwards, apiKeyError is set, isApiKeySelected is false
\* and files equals the selection the operation started with.
C8_CredentialFailure ==
    [][Len(uploads') < Len(uploads) =>
        \A u \in Slots, err \in ErrVals :
          (IsCredentialError(err) /\ IndexingFails(u, err))
          => /\ status' = Welcome
             /\ apiKeyError' # NoApiKeyError
             /\ ~isApiKeySelected'
             /\ files' = uploads[u].files]_vars

\* C9: when createRagStore or an ingest fails with an error that is not a
\* credential error, the phase is Error afterwards, error contains the
\* collaborator's message, and isApiKeySelected and files are unchanged.
C9_GenericFailure ==
    [][Len(uploads') < Len(uploads) =>
        \A u \in Slots, err \in ErrVals :
          (~IsCredentialError(err) /\ IndexingFails(u, err))
          => /\ status' = Error
             /\ error' # NoError
             /\ includes(error', ErrString(err))
             /\ isApiKeySelected' = isApiKeySelected
             /\ files' = files]_vars

C9_Witness ==
    /\ status = Error
    /\ includes(error, <<StartFailedText, ":", "Quota", "exceeded">>)
    /\ isApiKeySelected
    /\ Len(files) > 0
    /\ uploads = <<>>

\* C10: every progress update of an indexing over n files has total = n + 1,
\* the update made when the last ingest has returned has current = total, and
\* files is empty whenever the phase is Chatting.
C10_ProgressTotals ==
    [][/\ \A u \in 1..Len(uploads') :
            (/\ Len(uploads') >= Len(uploads)
             /\ (u > Len(uploads) \/ uploads'[u] # uploads[u]))
            => /\ uploadProgress'.total = Len(uploads'[u].files) + 1
               /\ (uploads'[u].pc = "ready"
                     => uploadProgress'.current = uploadProgress'.total)
       /\ (status' = Chatting => files' = <<>>)]_vars

\* C11: a successful indexing over n files names the session after the single
\* file when n = 1, "<first> & <second>" when n = 2, and "<n> documents" when
\* n >= 3.
C11_DisplayName ==
    [][\A u \in Slots :
          IndexingSucceeds(u) =>
            LET fs == uploads[u].files
                n == Len(fs)
            IN /\ n >= 1
               /\ n = 1 => documentName' = <<fs[1]>>
               /\ n = 2 => documentName' = <<fs[1], " & ", fs[2]>>
               /\ n >= 3 => documentName' = <<ToString(n), " documents">>]_vars

C11_Witness ==
    /\ status = Chatting
    /\ documentName = <<"3", " documents">>
    /\ activeRagStoreName # NoStore

\* handleUploadAndStartChat is invoked: one of its four ways through.
StartIndexingInvoked ==
    \/ StartIndexingRefused
    \/ StartIndexingNoFiles
    \/ \E err \in ErrVals : StartIndexingInitFails(err)
    \/ StartIndexing

\* C12: handleUploadAndStartChat invoked while isApiKeySelected is false sets
\* apiKeyError, requests no createRagStore and no upload, and leaves status,
\* files, activeRagStoreName, chatHistory and uploadProgress unchanged.
C12_RefusesWithoutCredential ==
    [][(~isApiKeySelected /\ StartIndexingInvoked)
          => /\ apiKeyError' # NoApiKeyError
             /\ uploads' = uploads
             /\ created' = created
             /\ UNCHANGED <<status, files, activeRagStoreName, chatHistory,
                            uploadProgress>>]_vars

C12_Witness ==
    /\ apiKeyError = SelectKeyFirstText
    /\ ~isApiKeySelected
    /\ status = Welcome
    /\ Len(files) > 0
    /\ uploads = <<>>
    /\ created = 0

\* handleUploadAndStartChat ends in one of its failures.
StartIndexingFailure ==
    \/ StartIndexingRefused
    \/ \E err \in ErrVals : StartIndexingInitFails(err)
    \/ \E u \in Slots, err \in ErrVals : IndexingFails(u, err)

\* C13 as stated: no operation ends by raising an error to its caller, so
\* the promise of no handler is ever rejected.
C13_NoOperationThrows == ~rejected

\* C13 as amended: only handleUploadAndStartChat raises to its caller; each
\* of its failures is also reported through apiKeyError or error, and the
\* rejection is caught by handleConfirmUpload before anything else runs.
C13_OnlyStartIndexingThrows ==
    [][/\ (rejected' /\ ~rejected)
            => /\ StartIndexingFailure
               /\ (apiKeyError' # NoApiKeyError \/ error' # NoError)
       /\ rejected => (~rejected' /\ UNCHANGED <<appVars, uploads, remoteVars>>)]_vars

C13_Witness ==
    /\ rejected
    /\ status = Error
    /\ error # NoError /\ Head(error) = StartFailedText

\* handleSendMessage is invoked: it returns at once or sends the query.
SendMessageInvoked ==
    \/ SendMessageNoStore
    \/ \E m \in Messages : handleSendMessage(m)

\* C14: handleSendMessage invoked while activeRagStoreName is null changes
\* neither chatHistory, isQueryLoading, status nor error, and sends no query.
C14_SendWithoutStoreIsNoOp ==
    [][(activeRagStoreName = NoStore /\ SendMessageInvoked)
          => UNCHANGED <<chatHistory, isQueryLoading, status, error,
                         pendingQuery>>]_vars

C14_Witness ==
    /\ Live
    /\ status = Welcome
    /\ activeRagStoreName = NoStore
    /\ everActive # {}
    /\ chatHistory = <<>>
    /\ ~isQueryLoading
    /\ pendingQuery = NoQuery
    /\ error = NoError

\* C15: every handleSendMessage that gets past its guard sets isQueryLoading;
\* the step in which the query settles, with an answer or an error, clears
\* it; and a set flag is eventually cleared (unless the page is torn down,
\* after which nothing settles).
C15_InFlightFlagCleared ==
    /\ [][/\ (\E m \in Messages : handleSendMessage(m)) => isQueryLoading'
          /\ QuerySettles => ~isQueryLoading']_vars
    /\ (isQueryLoading ~> (~isQueryLoading \/ unloaded))

\* The apology turn is in the transcript and the flag is clear again.
C15_Witness ==
    /\ chatHistory # <<>>
    /\ LastTurn = ModelTurn(ApologyText)
    /\ ~isQueryLoading
    /\ pendingQuery = NoQuery

\* C16: the step of handleEndChat itself ends with chatHistory empty,
\* documentName empty, files empty, activeRagStoreName null and status
\* Welcome, and the settling of the deletion it requested, resolved or
\* rejected, changes none of them.
C16_EndSessionResets ==
    [][/\ handleEndChat
            => /\ chatHistory' = <<>>
               /\ documentName' = <<>>
               /\ files' = <<>>
               /\ activeRagStoreName' = NoStore
               /\ status' = Welcome
       /\ deleteRagStoreSettles
            => UNCHANGED <<chatHistory, documentName, files, activeRagStoreName,
                           status, error>>]_vars

C16_Witness ==
    /\ Live
    /\ everActive # {}
    /\ \E s \in everActive : deleteRequests[s] = 1
    /\ activeRagStoreName = NoStore
    /\ chatHistory = <<>>
    /\ documentName = <<>>
    /\ files = <<>>
    /\ status = Welcome

\* C17: a checkApiKey that completes with the same answer as the previous
\* completed checkApiKey leaves isApiKeySelected as it was.
C17_RefreshNeverFlips ==
    [][\A rejects \in BOOLEAN :
          (checkApiKeySettles(rejects) /\ lastHasKey' = lastHasKey)
          => isApiKeySelected' = isApiKeySelected]_vars

\* C18: status becomes Uploading only in a step taken in status Welcome, so
\* after a state in Chatting the next state in Uploading is preceded by a
\* state in Welcome and never follows Chatting directly.
C18_IndexingOnlyFromWelcome ==
    [][(status' = Uploading /\ status # Uploading) => status = Welcome]_vars

\* A second indexing is under way after a session that reached Chatting.
C18_Witness ==
    /\ status = Uploading
    /\ everActive # {}
    /\ uploads # <<>>

\* C19: a step that leaves status Error is clearError, which leads to
\* Welcome; no indexing or query that settles in status Error changes it.
C19_FailedUntilAcknowledged ==
    [][(status = Error /\ status' # Error) => clearError]_vars

\* C20 as stated: no step taken in status Uploading, Chatting or Error
\* changes files.
C20_FilesFrozenAfterStart ==
    [][(status \in {Uploading, Chatting, Error}) => files' = files]_vars

\* C20 as amended: the only step taken in status Uploading, Chatting or
\* Error that changes files is the successful end of an indexing, which
\* empties it.
C20_FilesOnlyClearedOnSuccess ==
    [][(status \in {Uploading, Chatting, Error} /\ files' # files)
          => /\ files' = <<>>
             /\ \E u \in Slots : IndexingSucceeds(u)]_vars

\* The last ingest has returned and the selection is still the one the
\* indexing started with.
C20_Witness ==
    /\ status = Uploading
    /\ Len(uploads) = 1
    /\ uploads[1].pc = "ready"
    /\ files = uploads[1].files
    /\ Len(files) = MaxFiles

\* ------------------------------------------------------ renderMarkdown
\* A line is a sequence of one-character strings; the markup the renderer
\* writes is a sequence of the same characters and of tags, one string per
\* tag ("<code>" stands for the opening tag with its class attribute).
MaxLines == 3
Whitespace == {" "}
Digits == {"1", "2"}
\* The backtick character, which a TLA+ string cannot hold.
Backtick == "backtick"

\* The lines an input text is made of.
SampleLines ==
    { <<>>,
      <<" ">>,
      <<"a">>,
      <<"b", " ", "b">>,
      <<"1", ".", " ", "a">>,
      <<"2", ".", " ", "b">>,
      <<"1", ".", "a">>,
      <<"*", " ", "a">>,
      <<"-", " ", "b">>,
      <<"*", " ", "*", "b", "*">>,
      <<"*", "*", "a", "*", "*">>,
      <<"_", "a", "_">>,
      <<Backtick, "a", Backtick>>,
      <<"*", "a">>,
      <<" ", "1", "2", ".", " ", "*", "a", "*">> }

\* text.split('\n') of the input texts: at least one line.
Texts == UNION {[1..n -> SampleLines] : n \in 1..MaxLines}

\* pat occurs in s at position i.
At(s, i, pat) ==
    /\ i >= 1
    /\ i + Len(pat) - 1 <= Len(s)
    /\ SubSeq(s, i, i + Len(pat) - 1) = pat

\* The first position from i on where pat occurs in s, 0 when there is none.
FindFrom(s, pat, i) ==
    LET found == {j \in i..Len(s) : At(s, j, pat)}
    IN IF found = {} THEN 0 ELSE CHOOSE j \in found : \A k \in found : j <= k

\* replace(/D(.*?)D|E(.*?)E/g, open $1$2 close) from position i on: the
\* leftmost match, the first alternative first, the shortest content; a
\* position where neither alternative matches keeps its character.
RECURSIVE replaceDelimited(_, _, _, _, _, _)
replaceDelimited(s, i, d, e, open, close) ==
    IF i > Len(s) THEN <<>>
    ELSE LET endD == IF At(s, i, d) THEN FindFrom(s, d, i + Len(d)) ELSE 0
             endE == IF At(s, i, e) THEN FindFrom(s, e, i + Len(e)) ELSE 0
         IN IF endD # 0
            THEN <<open>> \o SubSeq(s, i + Len(d), endD - 1) \o <<close>>
                     \o replaceDelimited(s, endD + Len(d), d, e, open, close)
            ELSE IF endE # 0
            THEN <<open>> \o SubSeq(s, i + Len(e), endE - 1) \o <<close>>
                     \o replaceDelimited(s, endE + Len(e), d, e, open, close)
            ELSE <<s[i]>> \o replaceDelimited(s, i + 1, d, e, open, close)

\* replace(/`([^`]+)`/g, <code>$1</code>) from position i on: the content is
\* not empty and holds no backtick.
RECURSIVE replaceCode(_, _)
replaceCode(s, i) ==
    IF i > Len(s) THEN <<>>
    ELSE LET close == IF s[i] = Backtick THEN FindFrom(s, <<Backtick>>, i + 1) ELSE 0
         IN IF close > i + 1
            THEN <<"<code>">> \o SubSeq(s, i + 1, close - 1) \o <<"</code>">>
                     \o replaceCode(s, close + 1)
            ELSE <<s[i]>> \o replaceCode(s, i + 1)

\* const line = rawLine.replace(strong).replace(em).replace(code)
inlineMarkup(rawLine) ==
    LET strong == replaceDelimited(rawLine, 1, <<"*", "*">>, <<"_", "_">>,
                                   "<strong>", "</strong>")
        em == replaceDelimited(strong, 1, <<"*">>, <<"_">>, "<em>", "</em>")
    IN replaceCode(em, 1)

\* The first position from i on whose character is not in class, Len(s) + 1
\* when there is none.
RECURSIVE skipClass(_, _, _)
skipClass(s, i, class) ==
    IF i <= Len(s) /\ s[i] \in class THEN skipClass(s, i + 1, class) ELSE i

\* line.match(/^\s*\d+\.\s(.*)/) and its group 1
isOl(line) ==
    LET d == skipClass(line, 1, Whitespace)
        e == skipClass(line, d, Digits)
    IN /\ e > d
       /\ e + 1 <= Len(line)
       /\ line[e] = "."
       /\ line[e + 1] \in Whitespace
olItem(line) ==
    LET e == skipClass(line, skipClass(line, 1, Whitespace), Digits)
    IN SubSeq(line, e + 2, Len(line))

\* line.match(/^\s*[\*\-]\s(.*)/) and its group 1
isUl(line) ==
    LET d == skipClass(line, 1, Whitespace)
    IN /\ d + 1 <= Len(line)
       /\ line[d] \in {"*", "-"}
       /\ line[d + 1] \in Whitespace
ulItem(line) ==
    SubSeq(line, skipClass(line, 1, Whitespace) + 2, Len(line))

\* line.trim() === ''
isBlank(line) == \A i \in 1..Len(line) : line[i] \in Whitespace

\* html after flushPara() and after flushList()
flushPara(h, pb) == IF pb # <<>> THEN h \o <<"<p>">> \o pb \o <<"</p>">> ELSE h
flushList(h, lt) ==
    IF lt = "ol" THEN h \o <<"</ol>">>
    ELSE IF lt = "ul" THEN h \o <<"</ul>">>
    ELSE h

\* paraBuffer += (paraBuffer ? '<br/>' : '') + line
appendPara_NoBreak(pb, line) == pb \o line
appendPara(pb, line) == (IF pb # <<>> THEN pb \o <<"<br/>">> ELSE pb) \o line

\* One pass of the loop over the lines: html, listType and paraBuffer after
\* rawLine was handled.
loopBody_BlankSkipped(h, lt, pb, rawLine) ==
    LET line == inlineMarkup(rawLine)
        hp == flushPara(h, pb)
    IN IF isOl(line)
       THEN [html |-> (IF lt # "ol" THEN flushList(hp, lt) \o <<"<ol>">> ELSE hp)
                          \o <<"<li>">> \o olItem(line) \o <<"</li>">>,
             listType |-> "ol",
             paraBuffer |-> <<>>]
       ELSE IF isUl(line)
       THEN [html |-> (IF lt # "ul" THEN flushList(hp, lt) \o <<"<ul>">> ELSE hp)
                          \o <<"<li>">> \o ulItem(line) \o <<"</li>">>,
             listType |-> "ul",
             paraBuffer |-> <<>>]
       ELSE IF isBlank(line)
       THEN [html |-> h, listType |-> lt, paraBuffer |-> pb]
       ELSE [html |-> flushList(h, lt),
             listType |-> NoList,
             paraBuffer |-> appendPara(pb, line)]
loopBody(h, lt, pb, rawLine) ==
    LET line == inlineMarkup(rawLine)
        hp == flushPara(h, pb)
    IN IF isOl(line)
       THEN [html |-> (IF lt # "ol" THEN flushList(hp, lt) \o <<"<ol>">> ELSE hp)
                          \o <<"<li>">> \o olItem(line) \o <<"</li>">>,
             listType |-> "ol",
             paraBuffer |-> <<>>]
       ELSE IF isUl(line)
       THEN [html |-> (IF lt # "ul" THEN flushList(hp, lt) \o <<"<ul>">> ELSE hp)
                          \o <<"<li>">> \o ulItem(line) \o <<"</li>">>,
             listType |-> "ul",
             paraBuffer |-> <<>>]
       ELSE IF isBlank(line)
       THEN [html |-> flushPara(flushList(h, lt), pb),
             listType |-> NoList,
             paraBuffer |-> <<>>]
       ELSE [html |-> flushList(h, lt),
             listType |-> NoList,
             paraBuffer |-> appendPara(pb, line)]

sessionVars == <<appVars, hostVars, uploads, pendingQuery, remoteVars, unloaded,
                 rejected>>

\* The call has returned.
Rendered == lineNo = Len(lines) + 2

\* if (!text) return { __html: '' }
renderMarkdownEmpty ==
    /\ lineNo = 1
    /\ lines = << <<>> >>
    /\ lineNo' = Len(lines) + 2
    /\ UNCHANGED <<lines, html, listType, paraBuffer, sessionVars>>

\* for (const rawLine of lines) { ... }
renderMarkdownLine ==
    /\ lineNo >= 1
    /\ lineNo <= Len(lines)
    /\ lines # << <<>> >>
    /\ LET r == loopBody(html, listType, paraBuffer, lines[lineNo])
       IN /\ html' = r.html
          /\ listType' = r.listType
          /\ paraBuffer' = r.paraBuffer
    /\ lineNo' = lineNo + 1
    /\ UNCHANGED <<lines, sessionVars>>

\* flushPara(); flushList(); return { __html: html }
renderMarkdownEnd ==
    /\ lineNo >= 1
    /\ lineNo = Len(lines) + 1
    /\ html' = flushList(flushPara(html, paraBuffer), listType)
    /\ listType' = NoList
    /\ paraBuffer' = <<>>
    /\ lineNo' = lineNo + 1
    /\ UNCHANGED <<lines, sessionVars>>

\* renderMarkdown is called with one of the texts.  It reads no state of the
\* session, which stays as it is after construction.
RenderInit ==
    /\ status = Initializing
    /\ isApiKeySelected = FALSE
    /\ apiKeyError = NoApiKeyError
    /\ error = NoError
    /\ uploadProgress = NoProgress
    /\ activeRagStoreName = NoStore
    /\ chatHistory = <<>>
    /\ isQueryLoading = FALSE
    /\ documentName = <<>>
    /\ files = <<>>
    /\ ragStoreNameRef = NoStore
    /\ aistudio = TRUE
    /\ hostHasKey = TRUE
    /\ checkPending = FALSE
    /\ lastHasKey = NotAsked
    /\ uploads = <<>>
    /\ pendingQuery = NoQuery
    /\ created = 0
    /\ deleteRequests = [s \in Stores |-> 0]
    /\ everActive = {}
    /\ unloaded = FALSE
    /\ rejected = FALSE
    /\ lines \in Texts
    /\ lineNo = 1
    /\ html = <<>>
    /\ listType = NoList
    /\ paraBuffer = <<>>

RenderNext ==
    \/ renderMarkdownEmpty
    \/ renderMarkdownLine
    \/ renderMarkdownEnd

RenderSpec == RenderInit /\ [][RenderNext]_vars

\* What renderMarkdown returns for a text, for inspection of single cases.
RECURSIVE renderFrom(_, _, _, _, _)
renderFrom(ls, i, h, lt, pb) ==
    IF i > Len(ls) THEN flushList(flushPara(h, pb), lt)
    ELSE LET r == loopBody(h, lt, pb, ls[i])
         IN renderFrom(ls, i + 1, r.html, r.listType, r.paraBuffer)
renderMarkdown(ls) ==
    IF ls = << <<>> >> THEN <<>> ELSE renderFrom(ls, 1, <<>>, NoList, <<>>)

\* ------------------------------------------------------ claims C21..C23
\* A line without markup: none of the emphasis, code and bullet characters
\* and no numbered-item marker at its start.
MarkupChars == {"*", "_", Backtick, "-"}
NoMarkup(line) ==
    /\ \A j \in 1..Len(line) : line[j] \notin MarkupChars
    /\ ~isOl(line)

\* The lines from the i-th on, joined by line-break markers.
RECURSIVE JoinedFrom(_, _)
JoinedFrom(ls, i) ==
    IF i > Len(ls) THEN <<>>
    ELSE IF i = Len(ls) THEN ls[i]
    ELSE ls[i] \o <<"<br/>">> \o JoinedFrom(ls, i + 1)

OneParagraphOf(ls) == <<"<p>">> \o JoinedFrom(ls, 1) \o <<"</p>">>

\* C21 as stated: a text made only of lines without markup renders as one
\* paragraph block that holds the lines verbatim, in order, joined by
\* line-break markers.
C21_PlainIsOneParagraph ==
    (Rendered /\ \A i \in 1..Len(lines) : NoMarkup(lines[i]))
        => html = OneParagraphOf(lines)

\* C21 as amended: a text made only of lines without markup, none of them
\* blank, renders as one paragraph block that holds the lines verbatim, in
\* order, joined by line-break markers.
C21_PlainNonBlankIsOneParagraph ==
    (Rendered /\ \A i \in 1..Len(lines) :
                     NoMarkup(lines[i]) /\ ~isBlank(lines[i]))
        => html = OneParagraphOf(lines)

\* Three lines without markup, none blank, were rendered.
C21_Witness ==
    /\ Rendered
    /\ lines = << <<"a">>, <<"b", " ", "b">>, <<"1", ".", "a">> >>
    /\ html = <<"<p>", "a", "<br/>", "b", " ", "b", "<br/>", "1", ".", "a",
                "</p>">>

\* The list a line of the input belongs to, and its item: what follows the
\* marker, with its inline markup.
ListKind(rawLine) ==
    IF isOl(rawLine) THEN "ol" ELSE IF isUl(rawLine) THEN "ul" ELSE NoList
ListItem(rawLine) ==
    inlineMarkup(IF isOl(rawLine) THEN olItem(rawLine) ELSE ulItem(rawLine))
CloseTag(lt) == IF lt = "ol" THEN "</ol>" ELSE "</ul>"
OpenTag(lt) == IF lt = "ol" THEN "<ol>" ELSE "<ul>"

\* One list block per maximal run of list lines of one kind, one item per
\* line, from the i-th line on, when the list named open is open.
RECURSIVE ListBlocksFrom(_, _, _)
ListBlocksFrom(ls, i, open) ==
    LET closing == IF open = NoList THEN <<>> ELSE <<CloseTag(open)>>
    IN IF i > Len(ls) THEN closing
       ELSE LET k == ListKind(ls[i])
            IN IF k = NoList
               THEN closing \o ListBlocksFrom(ls, i + 1, NoList)
               ELSE (IF k = open THEN <<>> ELSE closing \o <<OpenTag(k)>>)
                        \o <<"<li>">> \o ListItem(ls[i]) \o <<"</li>">>
                        \o ListBlocksFrom(ls, i + 1, k)

\* The markup h from position i on, without its paragraph blocks.
RECURSIVE WithoutParagraphs(_, _, _)
WithoutParagraphs(h, i, inPara) ==
    IF i > Len(h) THEN <<>>
    ELSE IF h[i] = "<p>" THEN WithoutParagraphs(h, i + 1, TRUE)
    ELSE IF h[i] = "</p>" THEN WithoutParagraphs(h, i + 1, FALSE)
    ELSE (IF inPara THEN <<>> ELSE <<h[i]>>)
             \o WithoutParagraphs(h, i + 1, inPara)

\* C22: every maximal run of k consecutive ordered-list lines renders as one
\* ordered-list block with k items in input order, likewise for
\* unordered-list lines, and a line of another list kind or a non-list line
\* closes the open list block before anything else is written.
C22_ListRuns ==
    /\ [](Rendered =>
              WithoutParagraphs(html, 1, FALSE) = ListBlocksFrom(lines, 1, NoList))
    /\ [][(/\ renderMarkdownLine
           /\ listType # NoList
           /\ ListKind(lines[lineNo]) # listType)
              => /\ Len(html') > Len(html)
                 /\ html'[Len(html) + 1] = CloseTag(listType)]_vars

\* The number of times tag occurs in the markup h.
Count(h, tag) == Cardinality({i \in 1..Len(h) : h[i] = tag})

\* C23: a blank line closes the open list and flushes the paragraph buffer,
\* and a paragraph line that follows a blank line starts a paragraph of its
\* own, with every list block before it closed.
C23_BlankLineSeparates ==
    /\ [][(renderMarkdownLine /\ isBlank(lines[lineNo]))
              => /\ listType' = NoList
                 /\ paraBuffer' = <<>>
                 /\ html' = html
                        \o (IF listType = NoList THEN <<>>
                            ELSE <<CloseTag(listType)>>)
                        \o (IF paraBuffer = <<>> THEN <<>>
                            ELSE <<"<p>">> \o paraBuffer \o <<"</p>">>)]_vars
    /\ [][(/\ renderMarkdownLine
           /\ lineNo > 1
           /\ isBlank(lines[lineNo - 1])
           /\ ~isBlank(lines[lineNo])
           /\ ListKind(lines[lineNo]) = NoList)
              => /\ Count(html, "<ol>") = Count(html, "</ol>")
                 /\ Count(html, "<ul>") = Count(html, "</ul>")
                 /\ Count(html, "<p>") = Count(html, "</p>")
                 /\ html' = html
                 /\ paraBuffer' = inlineMarkup(lines[lineNo])]_vars

\* A list line, a blank line and a paragraph line were rendered: the
\* paragraph block follows the closing of the list.
C23_Witness ==
    /\ Rendered
    /\ lines = << <<"1", ".", " ", "a">>, <<" ">>, <<"b", " ", "b">> >>
    /\ html = <<"<ol>", "<li>", "a", "</li>", "</ol>",
                "<p>", "b", " ", "b", "</p>">>

C26_ProgressMonotone ==
    /\ []((uploads # <<>> /\ uploadProgress # NoProgress)
              => /\ uploadProgress.total # Undefined
                 /\ 0 <= uploadProgress.current
                 /\ uploadProgress.current <= uploadProgress.total
                 /\ uploadProgress.current = uploadProgress.total
                        => /\ uploadProgress.message = "Ready!"
                           /\ \E u \in 1..Len(uploads) :
                                  /\ uploads[u].pc = "ready"
                                  /\ Len(uploads[u].ingests) = Len(uploads[u].files))
    /\ [][(/\ uploads # <<>>
           /\ uploadProgress # NoProgress
           /\ uploadProgress' # NoProgress)
              => uploadProgress'.current >= uploadProgress.current]_vars

\* The number of turns of a role among the first k turns of the transcript.
TurnsOf(role, k) == Cardinality({j \in 1..k : chatHistory[j].role = role})

\* C25: every prefix of the transcript holds at most as many model turns as
\* user turns, so each model turn follows the user turn it answers; an
\* answer or failure of a query sent before the chat was ended is not
\* appended to the cleared transcript or to that of a later session.
C25_ModelTurnsAnswerUserTurns ==
    \A k \in 1..Len(chatHistory) : TurnsOf("model", k) <= TurnsOf("user", k)

====
